---- MODULE Spec2Model ----
(***************************************************************************)
(* XDR Brightness menu-bar utility: the brightness controller and the      *)
(* login-agent manager of its two source variants,                         *)
(*   "menubar" = xdr-menubar-app.py  (CoreDisplay call through swift),     *)
(*   "ddcctl"  = XDR_Brightness.py   (ddcctl command-line tool).           *)
(*                                                                         *)
(* Brightness levels of the menubar variant are floats on the scale        *)
(* 0.0 .. 3.2; they are kept here in thousandths (1.0 = 1000, 3.2 = 3200), *)
(* which represents every value the code computes from an integer slider   *)
(* position exactly.  The ddcctl variant hands the tool a percentage.      *)
(*                                                                         *)
(* The rumps event loop is single-threaded: one callback runs at a time.   *)
(* Brightness callbacks are one action each.  The login-agent callbacks    *)
(* are split at their file-system and launchctl calls, so that a deletion  *)
(* of the record by another process can be placed between them (SpecRace). *)
(***************************************************************************)
EXTENDS Integers, Sequences, FiniteSets

VARIABLES
    app,                 \* which source variant is running
    enabled,             \* self.enabled
    current_brightness,  \* self.current_brightness (menubar variant only)
    display,             \* level the panel actually shows (outside the process)
    enable_item,         \* the enabled menu item shows the checked / "Enabled" state
    startup_item,        \* the startup menu item shows its check mark
    plist,               \* what is at ~/Library/LaunchAgents/com.xdr.brightness.plist
    agents_dir,          \* ~/Library/LaunchAgents exists
    loaded,              \* launchd has the agent loaded
    pc,                  \* position inside the running login-agent callback
    last                 \* the latest callback: what it was, what it saw, what it did

vars == <<app, enabled, current_brightness, display, enable_item, startup_item,
          plist, agents_dir, loaded, pc, last>>

brightnessVars == <<enabled, current_brightness, display, enable_item>>
agentVars == <<plist, agents_dir, loaded>>

----------------------------------------------------------------------------
(* Program constants *)

OUTDOOR == 3200
BRIGHT == 2000
NORMAL == 1000
DIM == 500
SLIDER_MAX == 100
SLIDER_DIVISOR == 100
SLIDER_FACTOR == 3200
BRIGHTNESS_XDR == 100
BRIGHTNESS_NORMAL == 50

(* Bounds of the model *)

SliderTicks == 2

\* Slider positions tried: evenly spaced over the slider's range, plus 32.
SliderValues == {(i * SLIDER_MAX) \div SliderTicks : i \in 0..SliderTicks} \cup {32}

\* How an external program call can end: exit status 0, a non-zero exit
\* status, or the program cannot be started (Popen / run raise OSError).
ToolOutcomes == {"ok", "nonzero", "missing"}

\* The record's path holds no file, or one file with the given content.
NoFile == {}
File(content) == {content}
NoAttr == "absent"

----------------------------------------------------------------------------
(* Events a callback leaves in last.events, in program order *)

\* Names of the login-agent operations as last.op records them.
InstallOps == {"enable_startup", "_install_launch_agent"}
RemoveOps == {"disable_startup", "_remove_launch_agent"}
AgentOps == InstallOps \cup RemoveOps \cup {"toggle_startup"}

Ev(kind, value, outcome) == [e |-> kind, v |-> value, out |-> outcome]

NewOp(name, argument) ==
    [op |-> name, arg |-> argument,
     pre_enabled |-> enabled, pre_level |-> current_brightness,
     pre_display |-> display, pre_plist |-> plist,
     prev |-> IF last.op \in AgentOps /\ last.result = "ok" THEN last.op ELSE "other",
     events |-> <<>>, result |-> "running"]

----------------------------------------------------------------------------
(* xdr-menubar-app.py: brightness *)

\* Faulty variant: set_brightness without its "if not self.enabled: return".
set_brightness_unguarded(en, level, out) ==
    IF out = "missing" THEN
        [level |-> current_brightness, display |-> display,
         events |-> <<Ev("call", level, out)>>, result |-> "raised"]
    ELSE
        [level |-> level,
         display |-> IF out = "ok" THEN level ELSE display,
         events |-> <<Ev("call", level, out)>>, result |-> "ok"]

\* set_brightness(level), run with self.enabled = en, the swift process ending
\* in `out`.  The result names the new attribute value, the new panel level,
\* the events and whether an exception left the function.
set_brightness(en, level, out) ==
    IF ~en THEN
        [level |-> current_brightness, display |-> display,
         events |-> <<>>, result |-> "ok"]
    ELSE IF out = "missing" THEN
        [level |-> current_brightness, display |-> display,
         events |-> <<Ev("call", level, out)>>, result |-> "raised"]
    ELSE
        [level |-> level,
         display |-> IF out = "ok" THEN level ELSE display,
         events |-> <<Ev("call", level, out)>>, result |-> "ok"]

\* The body shared by the four preset callbacks: set_brightness(level), then
\* notification, icon and slider position (presentation, not modelled).
Preset(name, level) ==
    /\ pc = "idle"
    /\ app = "menubar"
    /\ \E out \in ToolOutcomes :
         LET r == set_brightness(enabled, level, out) IN
         /\ current_brightness' = r.level
         /\ display' = r.display
         /\ last' = [NewOp(name, level) EXCEPT !.events = r.events,
                                               !.result = r.result]
    /\ UNCHANGED <<app, enabled, enable_item, startup_item, agentVars, pc>>

set_outdoor == Preset("set_outdoor", OUTDOOR)
set_bright == Preset("set_bright", BRIGHT)
set_normal == Preset("set_normal", NORMAL)
set_dim == Preset("set_dim", DIM)

\* Faulty variant: the division by 100 left out.
SliderToBrightness_unscaled(value) == value * SLIDER_FACTOR

\* Faulty variant: the division done on integers, before the multiplication.
SliderToBrightness_intdiv(value) == (value \div SLIDER_DIVISOR) * SLIDER_FACTOR

\* brightness = (sender.value / 100.0) * 3.2, in thousandths
SliderToBrightness(value) == (value * SLIDER_FACTOR) \div SLIDER_DIVISOR

slider_changed ==
    /\ pc = "idle"
    /\ app = "menubar"
    /\ \E value \in SliderValues, out \in ToolOutcomes :
         IF ~enabled THEN
             /\ last' = [NewOp("slider_changed", value) EXCEPT !.result = "ok"]
             /\ UNCHANGED <<current_brightness, display>>
         ELSE
             LET r == set_brightness(enabled, SliderToBrightness(value), out) IN
             /\ current_brightness' = r.level
             /\ display' = r.display
             /\ last' = [NewOp("slider_changed", value) EXCEPT !.events = r.events,
                                                                !.result = r.result]
    /\ UNCHANGED <<app, enabled, enable_item, startup_item, agentVars, pc>>

toggle_enabled ==
    /\ pc = "idle"
    /\ app = "menubar"
    /\ \E out \in ToolOutcomes :
         LET en == ~enabled
             r == IF ~en THEN set_brightness(en, NORMAL, out)
                  ELSE [level |-> current_brightness, display |-> display,
                        events |-> <<>>, result |-> "ok"]
         IN
         /\ enabled' = en
         /\ enable_item' = en
         /\ current_brightness' = r.level
         /\ display' = r.display
         /\ last' = [NewOp("toggle_enabled", NoAttr) EXCEPT
                        !.events = <<Ev("flag", en, "ok")>> \o r.events,
                        !.result = r.result]
    /\ UNCHANGED <<app, startup_item, agentVars, pc>>

----------------------------------------------------------------------------
(* XDR_Brightness.py: brightness *)

\* _run_ddcctl(enable): the percentage handed to ddcctl, the new panel level,
\* the events (the call, and the alert on a non-zero exit) and whether an
\* exception left the function (only CalledProcessError is caught).
_run_ddcctl(enable, out) ==
    LET brightness == IF enable THEN BRIGHTNESS_XDR ELSE BRIGHTNESS_NORMAL IN
    [display |-> IF out = "ok" THEN brightness ELSE display,
     events |-> <<Ev("call", brightness, out)>>
                \o (IF out = "nonzero" THEN <<Ev("alert", brightness, out)>> ELSE <<>>),
     result |-> IF out = "missing" THEN "raised" ELSE "ok"]

_launch_agent_installed == plist # NoFile

toggle_xdr ==
    /\ pc = "idle"
    /\ app = "ddcctl"
    /\ \E out \in ToolOutcomes :
         LET en == ~enabled
             r == _run_ddcctl(en, out)
         IN
         /\ enabled' = en
         /\ display' = r.display
         /\ IF r.result = "ok"
            THEN /\ enable_item' = en
                 /\ startup_item' = _launch_agent_installed
            ELSE UNCHANGED <<enable_item, startup_item>>
         /\ last' = [NewOp("toggle_xdr", NoAttr) EXCEPT
                        !.events = <<Ev("flag", en, "ok")>> \o r.events,
                        !.result = r.result]
    /\ UNCHANGED <<app, current_brightness, agentVars, pc>>

----------------------------------------------------------------------------
(* The login-agent record *)

\* The property list enable_startup writes: Label, ProgramArguments
\* (sys.executable and the absolute path of this script), RunAtLoad, KeepAlive.
plist_content ==
    [label |-> "com.xdr.brightness", program |-> "sys.executable",
     script |-> "menubar", run_at_load |-> TRUE, keep_alive |-> "false"]

\* The property list _install_launch_agent writes: Label, ProgramArguments
\* (/usr/bin/python3 and the path of this script), RunAtLoad.
plist_text ==
    [label |-> "com.xdr.brightness", program |-> "/usr/bin/python3",
     script |-> "ddcctl", run_at_load |-> TRUE, keep_alive |-> "absent"]

\* The record written by variant a.
RecordOf(a) == IF a = "menubar" THEN plist_content ELSE plist_text

\* A record left at the same path by an earlier installation from another place.
StaleRecord ==
    [label |-> "com.xdr.brightness", program |-> "/usr/bin/python3",
     script |-> "elsewhere", run_at_load |-> TRUE, keep_alive |-> "absent"]

is_startup_enabled == plist # NoFile

Log(kind, outcome) == [last EXCEPT !.events = Append(@, Ev(kind, NoAttr, outcome))]

Raise(kind, outcome) ==
    [last EXCEPT !.events = Append(@, Ev(kind, NoAttr, outcome)),
                 !.result = "raised"]

\* launchctl load / unload can only succeed on a file that is there.
LaunchctlOutcomes == IF plist = NoFile THEN ToolOutcomes \ {"ok"} ELSE ToolOutcomes

----------------------------------------------------------------------------
(* xdr-menubar-app.py: launch at startup *)

toggle_startup ==
    /\ pc = "idle"
    /\ app = "menubar"
    /\ last' = NewOp("toggle_startup", is_startup_enabled)
    /\ pc' = IF is_startup_enabled THEN "disable_exists" ELSE "enable_write"
    /\ UNCHANGED <<app, brightnessVars, startup_item, agentVars>>

\* enable_startup called on its own
enable_startup ==
    /\ pc = "idle"
    /\ app = "menubar"
    /\ last' = NewOp("enable_startup", NoAttr)
    /\ pc' = "enable_write"
    /\ UNCHANGED <<app, brightnessVars, startup_item, agentVars>>

\* disable_startup called on its own
disable_startup ==
    /\ pc = "idle"
    /\ app = "menubar"
    /\ last' = NewOp("disable_startup", NoAttr)
    /\ pc' = "disable_exists"
    /\ UNCHANGED <<app, brightnessVars, startup_item, agentVars>>

\* Faulty variant: the record is appended to what the file holds, not written over it.
enable_startup_write_append ==
    /\ pc = "enable_write"
    /\ app = "menubar"
    /\ agents_dir' = TRUE
    /\ plist' = plist \cup File(RecordOf(app))
    /\ last' = Log("write", "ok")
    /\ pc' = "enable_load"
    /\ UNCHANGED <<app, brightnessVars, startup_item, loaded>>

\* plist_path.parent.mkdir(exist_ok=True); plist_path.write_text(plist_content)
enable_startup_write ==
    /\ pc = "enable_write"
    /\ app = "menubar"
    /\ agents_dir' = TRUE
    /\ plist' = File(RecordOf(app))
    /\ last' = Log("write", "ok")
    /\ pc' = "enable_load"
    /\ UNCHANGED <<app, brightnessVars, startup_item, loaded>>

\* Faulty variant: the record is deleted again when launchctl load does not succeed.
enable_startup_load_rollback ==
    /\ pc = "enable_load"
    /\ app = "menubar"
    /\ \E out \in LaunchctlOutcomes :
         /\ loaded' = IF out = "ok" THEN TRUE ELSE loaded
         /\ plist' = IF out = "ok" THEN plist ELSE NoFile
         /\ IF out = "missing"
            THEN last' = Raise("load", out) /\ pc' = "idle"
            ELSE last' = Log("load", out) /\ pc' = "return"
    /\ UNCHANGED <<app, brightnessVars, startup_item, agents_dir>>

\* subprocess.run(['launchctl', 'load', str(plist_path)])
enable_startup_load ==
    /\ pc = "enable_load"
    /\ app = "menubar"
    /\ \E out \in LaunchctlOutcomes :
         /\ loaded' = IF out = "ok" THEN TRUE ELSE loaded
         /\ IF out = "missing"
            THEN last' = Raise("load", out) /\ pc' = "idle"
            ELSE last' = Log("load", out) /\ pc' = "return"
    /\ UNCHANGED <<app, brightnessVars, startup_item, plist, agents_dir>>

\* if plist_path.exists():
disable_startup_exists ==
    /\ pc = "disable_exists"
    /\ app = "menubar"
    /\ pc' = IF plist # NoFile THEN "disable_unload" ELSE "return"
    /\ UNCHANGED <<app, brightnessVars, startup_item, agentVars, last>>

\* subprocess.run(['launchctl', 'unload', str(plist_path)])
disable_startup_unload ==
    /\ pc = "disable_unload"
    /\ app = "menubar"
    /\ \E out \in LaunchctlOutcomes :
         /\ loaded' = IF out = "ok" THEN FALSE ELSE loaded
         /\ IF out = "missing"
            THEN last' = Raise("unload", out) /\ pc' = "idle"
            ELSE last' = Log("unload", out) /\ pc' = "disable_unlink"
    /\ UNCHANGED <<app, brightnessVars, startup_item, plist, agents_dir>>

\* Faulty variant: the unlink left out.
disable_startup_unlink_skipped ==
    /\ pc = "disable_unlink"
    /\ app = "menubar"
    /\ last' = Log("unlink", "ok")
    /\ pc' = "return"
    /\ UNCHANGED <<app, brightnessVars, startup_item, agentVars>>

\* plist_path.unlink()
disable_startup_unlink ==
    /\ pc = "disable_unlink"
    /\ app = "menubar"
    /\ IF plist = NoFile
       THEN /\ last' = Raise("unlink", "missing")
            /\ pc' = "idle"
            /\ UNCHANGED plist
       ELSE /\ plist' = NoFile
            /\ last' = Log("unlink", "ok")
            /\ pc' = "return"
    /\ UNCHANGED <<app, brightnessVars, startup_item, agents_dir, loaded>>

\* Back in the caller: toggle_startup sets the item's title from is_enabled.
startup_return ==
    /\ pc = "return"
    /\ app = "menubar"
    /\ startup_item' = IF last.op = "toggle_startup" THEN ~last.arg ELSE startup_item
    /\ last' = [last EXCEPT !.result = "ok"]
    /\ pc' = "idle"
    /\ UNCHANGED <<app, brightnessVars, agentVars>>

----------------------------------------------------------------------------
(* XDR_Brightness.py: launch at startup *)

toggle_startup_ddcctl ==
    /\ pc = "idle"
    /\ app = "ddcctl"
    /\ last' = NewOp("toggle_startup", _launch_agent_installed)
    /\ pc' = IF _launch_agent_installed THEN "disable_exists" ELSE "enable_write"
    /\ UNCHANGED <<app, brightnessVars, startup_item, agentVars>>

\* _install_launch_agent called on its own, as cli_install_launch_agent does
cli_install_launch_agent ==
    /\ pc = "idle"
    /\ app = "ddcctl"
    /\ last' = NewOp("_install_launch_agent", NoAttr)
    /\ pc' = "enable_write"
    /\ UNCHANGED <<app, brightnessVars, startup_item, agentVars>>

\* _remove_launch_agent called on its own
_remove_launch_agent ==
    /\ pc = "idle"
    /\ app = "ddcctl"
    /\ last' = NewOp("_remove_launch_agent", NoAttr)
    /\ pc' = "disable_exists"
    /\ UNCHANGED <<app, brightnessVars, startup_item, agentVars>>

\* path.write_text(plist): no directory is created, so the write raises
\* FileNotFoundError when ~/Library/LaunchAgents is not there.
_install_launch_agent_write ==
    /\ pc = "enable_write"
    /\ app = "ddcctl"
    /\ IF agents_dir
       THEN /\ plist' = File(RecordOf(app))
            /\ last' = Log("write", "ok")
            /\ pc' = "enable_load"
       ELSE /\ last' = Raise("write", "missing")
            /\ pc' = "idle"
            /\ UNCHANGED plist
    /\ UNCHANGED <<app, brightnessVars, startup_item, agents_dir, loaded>>

\* subprocess.run(["launchctl", "load", str(path)], check=False)
_install_launch_agent_load ==
    /\ pc = "enable_load"
    /\ app = "ddcctl"
    /\ \E out \in LaunchctlOutcomes :
         /\ loaded' = IF out = "ok" THEN TRUE ELSE loaded
         /\ IF out = "missing"
            THEN last' = Raise("load", out) /\ pc' = "idle"
            ELSE last' = Log("load", out) /\ pc' = "return"
    /\ UNCHANGED <<app, brightnessVars, startup_item, plist, agents_dir>>

\* if path.exists():
_remove_launch_agent_exists ==
    /\ pc = "disable_exists"
    /\ app = "ddcctl"
    /\ pc' = IF plist # NoFile THEN "disable_unload" ELSE "return"
    /\ UNCHANGED <<app, brightnessVars, startup_item, agentVars, last>>

\* subprocess.run(["launchctl", "unload", str(path)], check=False)
_remove_launch_agent_unload ==
    /\ pc = "disable_unload"
    /\ app = "ddcctl"
    /\ \E out \in LaunchctlOutcomes :
         /\ loaded' = IF out = "ok" THEN FALSE ELSE loaded
         /\ IF out = "missing"
            THEN last' = Raise("unload", out) /\ pc' = "idle"
            ELSE last' = Log("unload", out) /\ pc' = "disable_unlink"
    /\ UNCHANGED <<app, brightnessVars, startup_item, plist, agents_dir>>

\* path.unlink()
_remove_launch_agent_unlink ==
    /\ pc = "disable_unlink"
    /\ app = "ddcctl"
    /\ IF plist = NoFile
       THEN /\ last' = Raise("unlink", "missing")
            /\ pc' = "idle"
            /\ UNCHANGED plist
       ELSE /\ plist' = NoFile
            /\ last' = Log("unlink", "ok")
            /\ pc' = "return"
    /\ UNCHANGED <<app, brightnessVars, startup_item, agents_dir, loaded>>

\* Back in toggle_startup: update_menu_state() refreshes both check marks.
\* The command-line helper prints and exits; it has no menu of the running app.
update_menu_state ==
    /\ pc = "return"
    /\ app = "ddcctl"
    /\ IF last.op = "toggle_startup"
       THEN /\ enable_item' = enabled
            /\ startup_item' = _launch_agent_installed
       ELSE UNCHANGED <<enable_item, startup_item>>
    /\ last' = [last EXCEPT !.result = "ok"]
    /\ pc' = "idle"
    /\ UNCHANGED <<app, enabled, current_brightness, display, agentVars>>

----------------------------------------------------------------------------
(* The environment: another process deletes the record *)

DeleteRecord ==
    /\ plist # NoFile
    /\ plist' = NoFile
    /\ last' = IF pc = "idle"
               THEN [NewOp("external_delete", NoAttr) EXCEPT !.result = "ok"]
               ELSE Log("vanished", "ok")
    /\ UNCHANGED <<app, brightnessVars, startup_item, agents_dir, loaded, pc>>

\* between two callbacks
external_delete == pc = "idle" /\ DeleteRecord

\* at any moment, also in the middle of a callback
external_delete_race == DeleteRecord

----------------------------------------------------------------------------
(* Specifications *)

Init ==
    /\ app \in {"menubar", "ddcctl"}
    /\ enabled = (app = "menubar")
    /\ current_brightness = IF app = "menubar" THEN NORMAL ELSE NoAttr
    /\ display \in IF app = "menubar" THEN {DIM, NORMAL}
                   ELSE {BRIGHTNESS_NORMAL, BRIGHTNESS_XDR}
    /\ plist \in {NoFile, File(StaleRecord), File(RecordOf(app))}
    /\ agents_dir \in BOOLEAN
    /\ plist # NoFile => agents_dir
    /\ loaded \in BOOLEAN
    /\ enable_item = enabled
    /\ startup_item = (plist # NoFile)
    /\ pc = "idle"
    /\ last = [op |-> "init", arg |-> NoAttr, pre_enabled |-> enabled,
               pre_level |-> current_brightness, pre_display |-> display,
               pre_plist |-> plist,
               prev |-> "other", events |-> <<>>, result |-> "ok"]

BrightnessNext ==
    \/ set_outdoor
    \/ set_bright
    \/ set_normal
    \/ set_dim
    \/ slider_changed
    \/ toggle_enabled
    \/ toggle_xdr

AgentNext ==
    \/ toggle_startup
    \/ enable_startup
    \/ disable_startup
    \/ enable_startup_write
    \/ enable_startup_load
    \/ disable_startup_exists
    \/ disable_startup_unload
    \/ disable_startup_unlink
    \/ startup_return
    \/ toggle_startup_ddcctl
    \/ cli_install_launch_agent
    \/ _remove_launch_agent
    \/ _install_launch_agent_write
    \/ _install_launch_agent_load
    \/ _remove_launch_agent_exists
    \/ _remove_launch_agent_unload
    \/ _remove_launch_agent_unlink
    \/ update_menu_state

\* One callback at a time; the record is deleted only between callbacks.
Next == BrightnessNext \/ AgentNext \/ external_delete

Spec == Init /\ [][Next]_vars

\* The record may be deleted at any point of a login-agent callback.
RaceNext == AgentNext \/ external_delete_race

SpecRace == Init /\ [][RaceNext]_vars

----------------------------------------------------------------------------
(* Reading last *)

LevelOps == {"set_outdoor", "set_bright", "set_normal", "set_dim", "slider_changed"}
PresetOps == LevelOps \ {"slider_changed"}
ToggleOps == {"toggle_enabled", "toggle_xdr"}

Events(kind) == {i \in DOMAIN last.events : last.events[i].e = kind}

FailedCalls == {i \in Events("call") : last.events[i].out # "ok"}

\* How many times the callback told anyone of a failure: an alert shown, or
\* an exception passed to its caller.
Reports == Cardinality(Events("alert")) + (IF last.result = "raised" THEN 1 ELSE 0)

\* launchctl could not be started during the callback.
LaunchctlMissing ==
    \E i \in Events("load") \cup Events("unload") : last.events[i].out = "missing"

SafeDefault == IF app = "menubar" THEN NORMAL ELSE BRIGHTNESS_NORMAL

----------------------------------------------------------------------------
(* Claims *)

\* C1: after every enabled -> disabled toggle, the safe default brightness
\* has been applied by a successful external call made before the flag was
\* cleared, and the panel shows the safe default.
C1_SafeDefaultBeforeDisable ==
    (last.op \in ToggleOps /\ last.pre_enabled) =>
        /\ \E i \in Events("call"), j \in Events("flag") :
              /\ i < j
              /\ last.events[i].out = "ok"
              /\ last.events[i].v = SafeDefault
        /\ display = SafeDefault

\* C2: a preset callback or slider_changed run while the controller is
\* disabled returns normally, leaves current_brightness and the panel as they
\* were and makes no external call.
C2_DisabledSetLevelNoOp ==
    (last.op \in LevelOps /\ ~last.pre_enabled) =>
        /\ current_brightness = last.pre_level
        /\ display = last.pre_display
        /\ Events("call") = {}
        /\ last.result = "ok"

C2_Witness ==
    /\ last.op = "set_outdoor"
    /\ ~last.pre_enabled
    /\ current_brightness # OUTDOOR

\* C3 as stated: the stored level and every level handed to the external
\* call lie in the normalized range 0.0 .. 1.0 (a percentage 0 .. 100 for
\* ddcctl).
C3_LevelsNormalized ==
    /\ app = "menubar" =>
          /\ current_brightness \in 0..NORMAL
          /\ \A i \in Events("call") : last.events[i].v \in 0..NORMAL
    /\ app = "ddcctl" =>
          \A i \in Events("call") : last.events[i].v \in 0..BRIGHTNESS_XDR

\* C3 amended: the stored level, the panel level and every level handed to
\* the external call lie in 0.0 .. 3.2 in the menubar variant; the ddcctl
\* variant hands over 50 or 100 on the tool's 0 .. 100 scale.
C3_LevelsWithinHardwareScale ==
    /\ app = "menubar" =>
          /\ current_brightness \in 0..OUTDOOR
          /\ display \in 0..OUTDOOR
          /\ \A i \in Events("call") : last.events[i].v \in 0..OUTDOOR
    /\ app = "ddcctl" =>
          /\ display \in {BRIGHTNESS_NORMAL, BRIGHTNESS_XDR}
          /\ \A i \in Events("call") :
                last.events[i].v \in {BRIGHTNESS_NORMAL, BRIGHTNESS_XDR}

C3_Witness ==
    /\ app = "menubar"
    /\ current_brightness = OUTDOOR
    /\ display = OUTDOOR
    /\ \E i \in Events("call") : last.events[i].v = OUTDOOR

\* C4: a callback whose external brightness call failed has reported the
\* failure exactly once and has left current_brightness and enabled as they
\* were before it.
C4_FailureReportedStateKept ==
    (last.op \in LevelOps \cup ToggleOps /\ FailedCalls # {}) =>
        /\ Reports = 1
        /\ current_brightness = last.pre_level
        /\ enabled = last.pre_enabled

C6_Idempotent ==
    pc = "idle" =>
        /\ (last.op \in InstallOps /\ last.prev \in InstallOps) =>
              /\ plist = File(RecordOf(app))
              /\ Cardinality(plist) = 1
              /\ plist = last.pre_plist
              /\ last.result = "raised" => LaunchctlMissing
        /\ (last.op \in InstallOps /\ last.pre_plist = File(StaleRecord)) =>
              plist = File(RecordOf(app))
        /\ (last.op \in RemoveOps /\ last.prev \in RemoveOps) =>
              /\ last.result = "ok"
              /\ last.events = <<>>
              /\ plist = NoFile

C6_Witness ==
    /\ pc = "idle"
    /\ last.op \in InstallOps
    /\ last.prev \in InstallOps
    /\ last.result = "ok"
    /\ loaded

\* C7 as stated: slider_changed at percentage p while enabled makes one
\* external call with the value p on a 0 .. 100 scale and ends with
\* current_brightness = p / 100.
C7_SliderNormalized ==
    (last.op = "slider_changed" /\ last.pre_enabled /\ last.result = "ok") =>
        /\ Cardinality(Events("call")) = 1
        /\ \A i \in Events("call") : last.events[i].v = last.arg
        /\ current_brightness * SLIDER_MAX = last.arg * NORMAL

\* C7 amended: slider_changed at percentage p while enabled makes exactly one
\* external call, with the value 3.2 * p / 100, and unless the tool could not
\* be started ends with current_brightness equal to that value; a preset
\* does the same with its own level; the slider mapping preserves order: any
\* lower position maps to a lower value than the one handed over, any higher
\* position to a higher one.
C7_SliderLinear ==
    (last.op \in LevelOps /\ last.pre_enabled) =>
        /\ Len(last.events) = 1
        /\ last.events[1].e = "call"
        /\ last.op \in PresetOps => last.events[1].v = last.arg
        /\ last.op = "slider_changed" =>
              /\ last.events[1].v * SLIDER_MAX = last.arg * OUTDOOR
              /\ \A b \in 0..SLIDER_MAX :
                    /\ b < last.arg => SliderToBrightness(b) < last.events[1].v
                    /\ b > last.arg => SliderToBrightness(b) > last.events[1].v
        /\ current_brightness = IF last.events[1].out = "missing"
                                THEN last.pre_level
                                ELSE last.events[1].v

C7_Witness ==
    /\ last.op = "slider_changed"
    /\ last.pre_enabled
    /\ last.arg = 32
    /\ current_brightness = 1024
    /\ display = 1024

\* C8: launchctl load runs only with the record of the running variant
\* already on disk, the write comes before the load in every install, and
\* when the load fails the record is still there and names the running
\* variant.
C8_WriteThenRegister ==
    /\ pc = "enable_load" => plist = File(RecordOf(app))
    /\ \A j \in Events("load") : \E i \in Events("write") : i < j
    /\ \A i \in Events("write") : \A j \in Events("load") : i < j
    /\ (pc = "idle" /\ Events("load") # {}) =>
          /\ is_startup_enabled
          /\ \A r \in plist : r.script = app /\ r.run_at_load

C8_Witness ==
    /\ pc = "idle"
    /\ \E j \in Events("load") : last.events[j].out # "ok"
    /\ last.pre_plist = File(StaleRecord)
    /\ plist = File(RecordOf(app))

\* C9: after a remove that reached launchctl unload, however the unload
\* ended, the record is gone.
C9_UnloadFailureNeverBlocksDelete ==
    (pc = "idle" /\ Events("unload") # {}) => plist = NoFile

\* C10: a login-agent callback during which the record was deleted by
\* another process returns normally, unless launchctl could not be started.
C10_ToleratesExternalDeletion ==
    (pc = "idle" /\ Events("vanished") # {} /\ ~LaunchctlMissing) =>
        last.result = "ok"

====
